---- MODULE Spec2Model ----
(***************************************************************************)
(* The BMI tracker of src/BMI.py: the SQLite store (class DB: tables users *)
(* and readings), the BMI functions calculate_bmi / bmi_category, and the  *)
(* handlers of class BMIApp that drive the store.                          *)
(*                                                                         *)
(* Representation.                                                         *)
(*  - A Python str is a sequence of one-character strings, so that         *)
(*    str.strip() and the NOCASE collation are computed, not assumed.      *)
(*  - An optional value (Python None / SQL NULL) is None == <<>>, a        *)
(*    present value x is Some(x) == <<x>>.                                 *)
(*  - A BMI value is kept in hundredths (22.86 is 2286): round(bmi, 2)     *)
(*    yields a multiple of 0.01.                                           *)
(*  - A timestamp is a natural number standing for the ISO-8601 text of    *)
(*    datetime.utcnow(); the text order of those strings is the order of   *)
(*    the instants.  The wall clock is an input of save_reading: it may    *)
(*    repeat a value or step back.                                         *)
(*  - The Entry widgets (weight_var, height_var, unit_mode, notes_var) are *)
(*    written by the user only and read by the handlers; the user may edit *)
(*    them freely between two handlers, so their contents are the inputs   *)
(*    of the handler that reads them.                                      *)
(*  - The connection runs in Python's implicit-transaction mode: a         *)
(*    statement changes the connection's view (users, readings,            *)
(*    sqlite_sequence) and conn.commit() makes the view durable            *)
(*    (committed).                                                         *)
(*  - A float is kept exactly where the code keeps it exactly; where a     *)
(*    result hangs on the binary rounding of a double (a quotient midway   *)
(*    between two hundredths), both outcomes are in the model.             *)
(*  - The exported file is its text: a sequence of lines, each a str.      *)
(*                                                                         *)
(* Beside it the password generator of src/PassGen.py (generate_passwords  *)
(* over the option widgets) and the lookups of src/weather.py, which run   *)
(* in background threads over the attributes of one WeatherApp.            *)
(***************************************************************************)
EXTENDS Integers, Sequences, FiniteSets, TLC

VARIABLES
    users,              \* table users as the connection sees it
    readings,           \* table readings as the connection sees it
    sqlite_sequence,    \* AUTOINCREMENT counters of the two tables
    committed,          \* the durable content of the database file
    selected_user_id,   \* BMIApp.selected_user_id
    users_map,          \* BMIApp.users_map: display name -> user id
    last_calculation,   \* BMIApp._last_calculation, None until first set
    history_tree,       \* iids of BMIApp.history_tree, in display order
    pc,                 \* position inside delete_user ("idle" between handlers)
    stats_label,        \* text of BMIApp.stats_label
    csv_file,           \* the file export_history wrote last, None before
    call,               \* the last direct call of a BMI utility, None before
    length_var,         \* PasswordGeneratorApp.length_var
    include,            \* the ticked ones of include_upper, include_lower,
                        \* include_digits, include_symbols
    exclude_ambiguous,  \* PasswordGeneratorApp.exclude_ambiguous
    exclude_entry,      \* text of PasswordGeneratorApp.exclude_entry
    count_var,          \* PasswordGeneratorApp.count_var
    results_list,       \* rows of PasswordGeneratorApp.results_list
    location_var,       \* WeatherApp.location_var
    coords,             \* WeatherApp.coords, None before the first lookup
    weather_json,       \* WeatherApp.weather_json, None before the first fetch
    lbl_location,       \* text of WeatherApp.lbl_location
    threads             \* the background threads _threaded has started

vars == <<users, readings, sqlite_sequence, committed, selected_user_id,
          users_map, last_calculation, history_tree, pc, stats_label,
          csv_file, call, length_var, include, exclude_ambiguous,
          exclude_entry, count_var, results_list, location_var, coords,
          weather_json, lbl_location, threads>>

\* the application and its database
app == <<users, readings, sqlite_sequence, committed, selected_user_id,
         users_map, last_calculation, history_tree, pc, stats_label>>

\* the password generator of src/PassGen.py
passgen == <<length_var, include, exclude_ambiguous, exclude_entry,
             count_var, results_list>>

\* the weather application of src/weather.py
weather == <<location_var, coords, weather_json, lbl_location, threads>>

\* what no handler of BMIApp but export_history writes
aside == <<csv_file, call, passgen, weather>>

----------------------------------------------------------------------------
(* Bounds of the model *)

MaxUsers == 2

MaxReadings == 2

MaxTime == 2

MaxDelta == 10

----------------------------------------------------------------------------
(* Optional values *)

None == <<>>

Some(x) == <<x>>

----------------------------------------------------------------------------
(* Strings *)

IsSpace(ch) == ch = " "

RECURSIVE lstrip(_)
lstrip(s) ==
    IF s = <<>> THEN <<>>
    ELSE IF IsSpace(Head(s)) THEN lstrip(Tail(s)) ELSE s

RECURSIVE rstrip(_)
rstrip(s) ==
    IF s = <<>> THEN <<>>
    ELSE IF IsSpace(s[Len(s)]) THEN rstrip(SubSeq(s, 1, Len(s) - 1)) ELSE s

\* str.strip(): leading and trailing whitespace removed
strip(s) == rstrip(lstrip(s))

\* ASCII case folding, as the NOCASE collation does
LowerChar(ch) ==
    CASE ch = "A" -> "a"
      [] ch = "B" -> "b"
      [] OTHER -> ch

lower(s) == [i \in 1..Len(s) |-> LowerChar(s[i])]

\* the code point of a character (the order of the UTF-8 encodings is the
\* order of the code points)
Ord(ch) ==
    CASE ch = " " -> 32
      [] ch = "A" -> 65
      [] ch = "B" -> 66
      [] ch = "a" -> 97
      [] ch = "b" -> 98
      [] ch = "l" -> 108
      [] ch = "É" -> 201
      [] ch = "é" -> 233

\* a <= b in the lexicographic order of two sequences of numbers
RECURSIVE SeqLeq(_, _)
SeqLeq(a, b) ==
    IF a = <<>> THEN TRUE
    ELSE IF b = <<>> THEN FALSE
    ELSE IF a[1] # b[1] THEN a[1] < b[1]
    ELSE SeqLeq(Tail(a), Tail(b))

\* the key COLLATE NOCASE compares names by: the text with the 26 ASCII
\* upper-case letters folded, every other character as it is
NoCaseKey(s) == [i \in 1..Len(s) |-> Ord(LowerChar(s[i]))]

\* names the user may type into the Add / Rename dialogs
NameInputs ==
    { <<"A", "l">>, <<"a", "l">>, <<" ", "a", "l">>, <<"B">>, <<" ">> }

\* answers to the optional date-of-birth dialog (None: cancelled)
DobInputs == { None }

----------------------------------------------------------------------------
(* BMI utilities *)

\* round(x, 2) in hundredths, for the float x the code computes for
\* num / (100 * den), den > 0: the hundredths round() can return.  x is a
\* binary double within a few ulps of the quotient and round() takes the
\* multiple of 0.01 nearest to x, so a quotient off the midpoint of two
\* hundredths has one outcome; on a midpoint the outcome is the side on
\* which the double fell (6 / (0.8 * 0.8) gives 9.37, 2 / (4.0 * 4.0)
\* gives 0.12, 703.0 * 2 / (20 * 20) gives 3.52).
\* a round() that cuts the digits off
round_down(num, den) == { num \div den }

round(num, den) ==
    LET f == num \div den
        r == num - f * den
    IN  IF 2 * r < den THEN { f }
        ELSE IF 2 * r > den THEN { f + 1 }
        ELSE { f, f + 1 }

\* calculate_bmi: the outcomes of the call, Some(bmi in hundredths) or None
\* when it raises (ValueError for a metric height <= 0, ZeroDivisionError
\* for an imperial height of 0).  Weights are not checked.
calculate_bmi(weight, height, unit) ==
    IF unit = "metric"
    THEN IF height <= 0 THEN { None }
         ELSE { Some(b) : b \in round(weight * 1000000, height * height) }
    ELSE IF height = 0 THEN { None }
         ELSE { Some(b) : b \in round(70300 * weight, height * height) }

\* a bmi_category whose comparisons include the boundary
bmi_category_closed(bmi) ==
    IF bmi <= 1850 THEN "Underweight"
    ELSE IF bmi <= 2500 THEN "Normal"
    ELSE IF bmi <= 3000 THEN "Overweight"
    ELSE "Obese"

bmi_category(bmi) ==
    IF bmi < 1850 THEN "Underweight"
    ELSE IF bmi < 2500 THEN "Normal"
    ELSE IF bmi < 3000 THEN "Overweight"
    ELSE "Obese"

----------------------------------------------------------------------------
(* Database utilities: class DB and the SQL the handlers run themselves *)

UserIds(us) == { u.id : u \in us }

\* SELECT id, name, dob FROM users WHERE id=?  (fetchone: a row or None)
get_user(user_id) ==
    IF \E u \in users : u.id = user_id
    THEN Some(CHOOSE u \in users : u.id = user_id)
    ELSE None

\* name TEXT UNIQUE NOT NULL: the column has the default BINARY collation,
\* so two names conflict exactly when they are the same text
UniqueConflict(us, name, except_id) ==
    \E u \in us : u.id # except_id /\ u.name = name

\* DB.add_user: lastrowid of the INSERT, or None on sqlite3.IntegrityError
add_user_lastrowid(name) ==
    IF UniqueConflict(users, name, 0) THEN None
    ELSE Some(sqlite_sequence.users + 1)

\* DB.add_user: table users after the call
add_user_table(name, dob) ==
    IF UniqueConflict(users, name, 0) THEN users
    ELSE users \cup { [id |-> sqlite_sequence.users + 1, name |-> name, dob |-> dob] }

\* UPDATE users SET name=? WHERE id=?, or the table as it was when the
\* statement raises sqlite3.IntegrityError
rename_table(user_id, name) ==
    IF UniqueConflict(users, name, user_id) THEN users
    ELSE { IF u.id = user_id THEN [u EXCEPT !.name = name] ELSE u : u \in users }

ReadingsOf(rs, user_id) == { r \in rs : r.user_id = user_id }

\* a delete_user that forgets the readings of the user
DeleteReadingsKeepsAll(user_id) == readings

\* a DELETE FROM readings that lost its WHERE clause
DeleteReadingsDropsAll(user_id) == {}

\* DELETE FROM readings WHERE user_id=?
DeleteReadingsWhereUser(user_id) == readings \ ReadingsOf(readings, user_id)

\* DELETE FROM users WHERE id=?
DeleteUsersWhereId(user_id) == { u \in users : u.id # user_id }

\* DELETE FROM readings WHERE id=?  for every selected iid
DeleteReadingsWhereId(sel) == { r \in readings : r.id \notin sel }

\* The constraints of table readings that SQLite enforces on an INSERT:
\* user_id INTEGER NOT NULL.  FOREIGN KEY(user_id) REFERENCES users(id) is
\* declared, but the connection never sets PRAGMA foreign_keys = ON, so it
\* is not enforced.
ReadingInsertOk(user_id) == user_id # None

\* a save_reading that also stamps the user's stored readings with the
\* time of the new one
save_reading_restamps(user_id, ts, weight, height, unit, bmi, category, notes) ==
    IF ~ReadingInsertOk(user_id) THEN readings
    ELSE { IF r.user_id = user_id[1] THEN [r EXCEPT !.timestamp = ts] ELSE r :
              r \in readings } \cup
         { [id |-> sqlite_sequence.readings + 1, user_id |-> user_id[1],
            timestamp |-> ts, weight |-> weight, height |-> height,
            unit |-> unit, bmi |-> bmi, category |-> category,
            notes |-> notes] }

\* DB.save_reading: table readings after the call (unchanged when the
\* INSERT raises sqlite3.IntegrityError)
save_reading_table(user_id, ts, weight, height, unit, bmi, category, notes) ==
    IF ~ReadingInsertOk(user_id) THEN readings
    ELSE readings \cup
         { [id |-> sqlite_sequence.readings + 1, user_id |-> user_id[1],
            timestamp |-> ts, weight |-> weight, height |-> height,
            unit |-> unit, bmi |-> bmi, category |-> category,
            notes |-> notes] }

\* s lists every element of S once
IsListingOf(s, S) ==
    /\ Len(s) = Cardinality(S)
    /\ \A x \in S : \E i \in 1..Len(s) : s[i] = x

\* ... ORDER BY timestamp
OrderedByTimestamp(s) ==
    \A i, j \in 1..Len(s) : i < j => s[i].timestamp <= s[j].timestamp

\* DB.get_readings over table rs: the row sequences fetchall() can return.
\* SELECT ... FROM readings WHERE user_id=? ORDER BY timestamp: rows with
\* equal timestamps come in an order SQL leaves unspecified.
QueryReadings(rs, user_id) ==
    LET S == ReadingsOf(rs, user_id)
    IN  { s \in [1..Cardinality(S) -> S] :
            IsListingOf(s, S) /\ OrderedByTimestamp(s) }

get_readings(user_id) == QueryReadings(readings, user_id)

\* DB.list_users: the row sequences fetchall() can return for
\* SELECT id, name, dob FROM users ORDER BY name COLLATE NOCASE; rows whose
\* names are equal under NOCASE come in an order SQL leaves unspecified
list_users ==
    { s \in [1..Cardinality(users) -> users] :
        /\ IsListingOf(s, users)
        /\ \A i, j \in 1..Len(s) :
               i < j => SeqLeq(NoCaseKey(s[i].name), NoCaseKey(s[j].name)) }

----------------------------------------------------------------------------
(* The application: class BMIApp *)

\* conn.commit(): the connection's view becomes the durable content
Snapshot(us, rs, seq) == [users |-> us, readings |-> rs, sqlite_sequence |-> seq]

\* refresh_user_list: users_map rebuilt from DB.list_users()
UsersMapOf(us) ==
    [n \in { u.name : u \in us } |-> (CHOOSE u \in us : u.name = n).id]

\* refresh_history: the iid sequences the Treeview can show for the
\* selected user over table rs (empty when no user is selected)
TreeRows(rs, sel) ==
    IF sel = None THEN { <<>> }
    ELSE { [i \in 1..Len(s) |-> s[i].id] : s \in QueryReadings(rs, sel[1]) }

\* a validate_inputs that only asks for positive numbers
InRangePositive(w, h, mode) == w > 0 /\ h > 0

\* validate_inputs: the advisory ranges of the selected unit system
InRange(w, h, mode) ==
    IF mode = "metric"
    THEN 20 <= w /\ w <= 500 /\ 50 <= h /\ h <= 272
    ELSE 44 <= w /\ w <= 1100 /\ 20 <= h /\ h <= 107

validate_inputs(w, h, mode) == selected_user_id # None /\ InRange(w, h, mode)

RECURSIVE sum(_)
sum(bmis) == IF bmis = <<>> THEN 0 ELSE bmis[1] + sum(Tail(bmis))

min(bmis) == CHOOSE b \in { bmis[i] : i \in 1..Len(bmis) } :
                 \A i \in 1..Len(bmis) : b <= bmis[i]

max(bmis) == CHOOSE b \in { bmis[i] : i \in 1..Len(bmis) } :
                 \A i \in 1..Len(bmis) : b >= bmis[i]

\* the stats block of refresh_chart over the non-empty list bmis: the texts
\* 'Mean: {:.2f}  Min: {:.2f}  Max: {:.2f}  Last: {:.2f}' it can build, as
\* <<"stats", mean, min, max, last>> in hundredths.  The bmis are
\* hundredths already; the mean is formatted from the float sum / len.
Stats(bmis) ==
    { <<"stats", mean, min(bmis), max(bmis), bmis[Len(bmis)]>> :
          mean \in round(sum(bmis), Len(bmis)) }

\* a refresh_chart that shows zeros for a user without readings
refresh_chart_zeros(rs, sel) ==
    IF sel = None THEN { <<"No user selected">> }
    ELSE UNION { IF s = <<>> THEN { <<"stats", 0, 0, 0, 0>> }
                 ELSE Stats([i \in 1..Len(s) |-> s[i].bmi]) :
                 s \in QueryReadings(rs, sel[1]) }

\* refresh_chart: the texts stats_label can get for selection sel over
\* table rs
refresh_chart(rs, sel) ==
    IF sel = None THEN { <<"No user selected">> }
    ELSE UNION { IF s = <<>> THEN { <<"No readings">> }
                 ELSE Stats([i \in 1..Len(s) |-> s[i].bmi]) :
                 s \in QueryReadings(rs, sel[1]) }

\* notes_var.get().strip() or None
NotesOf(text) == IF strip(text) = <<>> THEN None ELSE Some(strip(text))

----------------------------------------------------------------------------
(* export_history: the CSV text.  A file is its line terminator and its   *)
(* lines, a line is a str.                                                 *)

\* the str of the words the rows and the header are made of
Text(word) ==
    CASE word = "id" -> <<"i", "d">>
      [] word = "timestamp" -> <<"t", "i", "m", "e", "s", "t", "a", "m", "p">>
      [] word = "weight" -> <<"w", "e", "i", "g", "h", "t">>
      [] word = "height" -> <<"h", "e", "i", "g", "h", "t">>
      [] word = "unit" -> <<"u", "n", "i", "t">>
      [] word = "bmi" -> <<"b", "m", "i">>
      [] word = "category" -> <<"c", "a", "t", "e", "g", "o", "r", "y">>
      [] word = "notes" -> <<"n", "o", "t", "e", "s">>
      [] word = "metric" -> <<"m", "e", "t", "r", "i", "c">>
      [] word = "imperial" -> <<"i", "m", "p", "e", "r", "i", "a", "l">>
      [] word = "Underweight" ->
             <<"U", "n", "d", "e", "r", "w", "e", "i", "g", "h", "t">>
      [] word = "Normal" -> <<"N", "o", "r", "m", "a", "l">>
      [] word = "Overweight" ->
             <<"O", "v", "e", "r", "w", "e", "i", "g", "h", "t">>
      [] word = "Obese" -> <<"O", "b", "e", "s", "e">>

headers == <<"id", "timestamp", "weight", "height", "unit", "bmi",
             "category", "notes">>

DigitChar(d) == <<"0", "1", "2", "3", "4", "5", "6", "7", "8", "9">>[d + 1]

\* str(n) of an int n >= 0
RECURSIVE str_int(_)
str_int(n) ==
    IF n < 10 THEN <<DigitChar(n)>>
    ELSE str_int(n \div 10) \o <<DigitChar(n % 10)>>

\* repr(x) of the float x given in hundredths: 70.0, 22.9, 22.86, -1.63
repr_float(x) ==
    LET a  == IF x < 0 THEN 0 - x ELSE x
        fr == a % 100
    IN  (IF x < 0 THEN <<"-">> ELSE <<>>)
        \o str_int(a \div 100) \o <<".">>
        \o (IF fr % 10 = 0 THEN <<DigitChar(fr \div 10)>>
            ELSE <<DigitChar(fr \div 10), DigitChar(fr % 10)>>)

\* the stored timestamp text of instant ts
isoformat(ts) == <<"T">> \o str_int(ts)

\* a writer that prints None as the word None
CellsNoneAsText(row) ==
    << str_int(row.id), isoformat(row.timestamp),
       repr_float(100 * row.weight), repr_float(100 * row.height),
       Text(row.unit), repr_float(row.bmi), Text(row.category),
       IF row.notes = None THEN <<"N", "o", "n", "e">> ELSE row.notes[1] >>

\* the text of each field of a fetched row (id, timestamp, weight, height,
\* unit, bmi, category, notes) as csv.writer and DataFrame.to_csv print it:
\* str() of an int, repr() of a float, a str as it is, None as ''
Cells(row) ==
    << str_int(row.id), isoformat(row.timestamp),
       repr_float(100 * row.weight), repr_float(100 * row.height),
       Text(row.unit), repr_float(row.bmi), Text(row.category),
       IF row.notes = None THEN <<>> ELSE row.notes[1] >>

\* QUOTE_MINIMAL: a field is quoted when it holds the delimiter, the quote
\* character or a line break
NeedsQuote(cell) ==
    \E i \in 1..Len(cell) : cell[i] \in { ",", "\"", "\r", "\n" }

RECURSIVE DoubleQuotes(_)
DoubleQuotes(cell) ==
    IF cell = <<>> THEN <<>>
    ELSE (IF cell[1] = "\"" THEN <<"\"", "\"">> ELSE <<cell[1]>>)
         \o DoubleQuotes(Tail(cell))

Field(cell) ==
    IF NeedsQuote(cell) THEN <<"\"">> \o DoubleQuotes(cell) \o <<"\"">>
    ELSE cell

RECURSIVE Join(_)
Join(fields) ==
    IF Len(fields) = 1 THEN fields[1]
    ELSE fields[1] \o <<",">> \o Join(Tail(fields))

\* csv.writer.writerow: the line without its terminator
writerow(cells) == Join([i \in 1..Len(cells) |-> Field(cells[i])])

HeaderLine == writerow([i \in 1..Len(headers) |-> Text(headers[i])])

\* an export that writes the rows last to first
FileLinesReversed(rows) ==
    <<HeaderLine>> \o
    [i \in 1..Len(rows) |-> writerow(Cells(rows[Len(rows) + 1 - i]))]

\* the header line, then one line per row in the order of rows
FileLines(rows) ==
    <<HeaderLine>> \o [i \in 1..Len(rows) |-> writerow(Cells(rows[i]))]

\* pd.DataFrame(readings, columns=headers).to_csv(fname, index=False):
\* header and rows through csv.writer, None printed as na_rep '', lines
\* ended by os.linesep
to_csv(rows) == [lineterminator |-> "\n", lines |-> FileLines(rows)]

\* csv.writer(f) over a file opened with newline='': writerow(headers),
\* then writerow(row) for each row; lines ended by '\r\n'
csv_writer(rows) == [lineterminator |-> "\r\n", lines |-> FileLines(rows)]

----------------------------------------------------------------------------
(* The handlers *)

\* How rename_user_dialog goes on from its checks: the warning 'Select a
\* user first', a plain return when get_user finds no row, or the dialog
\* that asks for the new name.
rename_user_dialog_result ==
    IF selected_user_id = None THEN "showwarning"
    ELSE IF get_user(selected_user_id[1]) = None THEN "return"
    ELSE "askstring"

\* How calculate_action ends for the entries w, h and the unit mode: the
\* error dialog of a failed validation or of a raising calculate_bmi, or
\* show_result.  calculate_bmi is called after validate_inputs returned.
calculate_action_result(w, h, mode) ==
    IF ~validate_inputs(w, h, mode) THEN "showerror"
    ELSE IF None \in calculate_bmi(w, h, mode) THEN "showerror"
    ELSE "show_result"

\* How delete_user goes on from its check: the warning 'Select a user
\* first', or the two DELETEs and the commit; the user row is not looked up.
delete_user_result ==
    IF selected_user_id = None THEN "showwarning" ELSE "deleted"

\* How delete_selected_reading goes on from its check: the warning 'Select
\* a reading first', or one DELETE per selected row and the commit; the
\* rows are not looked up and an exception of a DELETE is passed over.
delete_selected_reading_result(sel) ==
    IF sel = {} THEN "showwarning" ELSE "deleted"

\* BMIApp.__init__: the database opened empty, nothing selected
InitBMIApp ==
    /\ users = {}
    /\ readings = {}
    /\ sqlite_sequence = [users |-> 0, readings |-> 0]
    /\ committed = Snapshot({}, {}, [users |-> 0, readings |-> 0])
    /\ selected_user_id = None
    /\ users_map = UsersMapOf({})
    /\ last_calculation = None
    /\ history_tree = <<>>
    /\ pc = "idle"
    /\ stats_label = <<"No user selected">>
    /\ csv_file = None
    /\ call = None

\* PasswordGeneratorApp._build_ui: the option widgets with their defaults
InitPasswordGeneratorApp ==
    /\ length_var = 16
    /\ include = { "upper", "lower", "digits", "symbols" }
    /\ exclude_ambiguous = TRUE
    /\ exclude_entry = <<>>
    /\ count_var = 1
    /\ results_list = <<>>

\* WeatherApp.__init__: nothing looked up, no thread started
InitWeatherApp ==
    /\ location_var = <<>>
    /\ coords = None
    /\ weather_json = None
    /\ lbl_location = <<"-">>
    /\ threads = <<>>

Init == InitBMIApp /\ InitPasswordGeneratorApp /\ InitWeatherApp

\* on_user_select: a row of the user listbox is clicked
on_user_select(display) ==
    /\ pc = "idle"
    /\ display \in DOMAIN users_map
    /\ selected_user_id' = Some(users_map[display])
    /\ history_tree' \in TreeRows(readings, Some(users_map[display]))
    /\ stats_label' \in refresh_chart(readings, Some(users_map[display]))
    /\ UNCHANGED <<users, readings, sqlite_sequence, committed, users_map,
                   last_calculation, pc, aside>>

\* add_user_dialog: name is the answer to the first dialog, dob to the second
add_user_dialog(name, dob) ==
    /\ pc = "idle"
    /\ name # <<>>
    /\ sqlite_sequence.users < MaxUsers
    /\ LET uid == add_user_lastrowid(strip(name))
           us  == add_user_table(strip(name), dob)
       IN  IF uid = None
           THEN UNCHANGED vars
           ELSE /\ users' = us
                /\ sqlite_sequence' = [sqlite_sequence EXCEPT !.users = uid[1]]
                /\ committed' = Snapshot(us, readings, sqlite_sequence')
                /\ users_map' = UsersMapOf(us)
                /\ UNCHANGED <<readings, selected_user_id, last_calculation,
                               history_tree, pc, stats_label, aside>>

\* rename_user_dialog: newname is the answer to the dialog
rename_user_dialog(newname) ==
    /\ pc = "idle"
    /\ rename_user_dialog_result = "askstring"
    /\ newname # <<>>
    /\ LET us == rename_table(selected_user_id[1], strip(newname))
       IN  IF UniqueConflict(users, strip(newname), selected_user_id[1])
           THEN UNCHANGED vars
           ELSE /\ users' = us
                /\ committed' = Snapshot(us, readings, sqlite_sequence)
                /\ users_map' = UsersMapOf(us)
                /\ UNCHANGED <<readings, sqlite_sequence, selected_user_id,
                               last_calculation, history_tree, pc,
                               stats_label, aside>>

\* delete_user, confirmed in the dialog: both DELETE statements and the commit
delete_user ==
    /\ pc = "idle"
    /\ delete_user_result = "deleted"
    /\ LET rs == DeleteReadingsWhereUser(selected_user_id[1])
           us == DeleteUsersWhereId(selected_user_id[1])
       IN  /\ readings' = rs
           /\ users' = us
           /\ committed' = Snapshot(us, rs, sqlite_sequence)
           /\ users_map' = UsersMapOf(us)
    /\ selected_user_id' = None
    /\ history_tree' = <<>>
    /\ stats_label' = <<"No user selected">>
    /\ UNCHANGED <<sqlite_sequence, last_calculation, pc, aside>>

\* calculate_action with the entries holding w, h and the unit mode
calculate_action(w, h, mode) ==
    /\ pc = "idle"
    /\ calculate_action_result(w, h, mode) = "show_result"
    /\ \E bmi \in calculate_bmi(w, h, mode) :
           /\ bmi # None
           /\ last_calculation' = Some(<<bmi[1], bmi_category(bmi[1])>>)
    /\ UNCHANGED <<users, readings, sqlite_sequence, committed,
                   selected_user_id, users_map, history_tree, pc,
                   stats_label, aside>>

\* a save_action without the hasattr check: with nothing calculated it
\* stores the reading with the values of a calculation of 70 kg at 175 cm
save_action_uncalculated(w, h, mode, text, ts) ==
    /\ pc = "idle"
    /\ sqlite_sequence.readings < MaxReadings
    /\ LET calc == IF last_calculation # None THEN last_calculation[1]
                   ELSE <<2286, "Normal">>
           rs   == save_reading_table(selected_user_id, ts, w, h, mode,
                                      calc[1], calc[2], NotesOf(text))
       IN  IF ~ReadingInsertOk(selected_user_id)
           THEN UNCHANGED vars
           ELSE /\ readings' = rs
                /\ sqlite_sequence' =
                       [sqlite_sequence EXCEPT !.readings = @ + 1]
                /\ committed' = Snapshot(users, rs, sqlite_sequence')
                /\ history_tree' \in TreeRows(rs, selected_user_id)
                /\ stats_label' \in refresh_chart(rs, selected_user_id)
                /\ UNCHANGED <<users, selected_user_id, users_map,
                               last_calculation, pc, aside>>

\* save_action with the entries holding w, h, the unit mode and the notes
\* text, at wall-clock time ts
save_action(w, h, mode, text, ts) ==
    /\ pc = "idle"
    /\ last_calculation # None
    /\ sqlite_sequence.readings < MaxReadings
    /\ LET bmi == last_calculation[1][1]
           cat == last_calculation[1][2]
           rs  == save_reading_table(selected_user_id, ts, w, h, mode, bmi,
                                     cat, NotesOf(text))
       IN  IF ~ReadingInsertOk(selected_user_id)
           THEN UNCHANGED vars
           ELSE /\ readings' = rs
                /\ sqlite_sequence' =
                       [sqlite_sequence EXCEPT !.readings = @ + 1]
                /\ committed' = Snapshot(users, rs, sqlite_sequence')
                /\ history_tree' \in TreeRows(rs, selected_user_id)
                /\ stats_label' \in refresh_chart(rs, selected_user_id)
                /\ UNCHANGED <<users, selected_user_id, users_map,
                               last_calculation, pc, aside>>

\* refresh_history: the Refresh button
refresh_history ==
    /\ pc = "idle"
    /\ history_tree' \in TreeRows(readings, selected_user_id)
    /\ UNCHANGED <<users, readings, sqlite_sequence, committed,
                   selected_user_id, users_map, last_calculation, pc,
                   stats_label, aside>>

\* delete_selected_reading, confirmed, with the rows sel selected in the tree
delete_selected_reading(sel) ==
    /\ pc = "idle"
    /\ delete_selected_reading_result(sel) = "deleted"
    /\ sel \subseteq { history_tree[i] : i \in 1..Len(history_tree) }
    /\ LET rs == DeleteReadingsWhereId(sel)
       IN  /\ readings' = rs
           /\ committed' = Snapshot(users, rs, sqlite_sequence)
           /\ history_tree' \in TreeRows(rs, selected_user_id)
           /\ stats_label' \in refresh_chart(rs, selected_user_id)
    /\ UNCHANGED <<users, sqlite_sequence, selected_user_id, users_map,
                   last_calculation, pc, aside>>

\* export_history with a file name chosen in the dialog; PANDAS_AVAILABLE
\* is whether the import of pandas succeeded.  Nothing is written when no
\* user is selected or the user has no reading (a warning is shown).
export_history(PANDAS_AVAILABLE) ==
    /\ pc = "idle"
    /\ selected_user_id # None
    /\ \E rows \in get_readings(selected_user_id[1]) :
           IF rows = <<>>
           THEN UNCHANGED csv_file
           ELSE csv_file' = Some(IF PANDAS_AVAILABLE THEN to_csv(rows)
                                 ELSE csv_writer(rows))
    /\ UNCHANGED <<app, call, passgen, weather>>

----------------------------------------------------------------------------
(* The application driven through its window.  The entries hold one valid *)
(* measurement; the names typed vary.                                      *)

Times == 1..MaxTime

ReadingIds == 1..MaxReadings

Next ==
    \/ \E display \in DOMAIN users_map : on_user_select(display)
    \/ \E name \in NameInputs, dob \in DobInputs : add_user_dialog(name, dob)
    \/ \E newname \in NameInputs : rename_user_dialog(newname)
    \/ delete_user
    \/ calculate_action(70, 175, "metric")
    \/ \E ts \in Times : save_action(70, 175, "metric", <<>>, ts)
    \/ refresh_history
    \/ \E sel \in SUBSET ReadingIds : delete_selected_reading(sel)

Spec == Init /\ [][Next]_vars

----------------------------------------------------------------------------
(* The application with the entries varying: weights, unit modes and notes *)
(* differ between Calculate and Save; two plain names are typed.           *)

PlainNames == { <<"A", "l">>, <<"B">> }

EntryWeights == { 0, 70 }

EntryHeights == { 175 }

UnitModes == { "metric", "imperial" }

NotesTexts == { <<>>, <<"x">> }

NextReadings ==
    \/ \E display \in DOMAIN users_map : on_user_select(display)
    \/ \E name \in PlainNames : add_user_dialog(name, None)
    \/ \E newname \in PlainNames : rename_user_dialog(newname)
    \/ delete_user
    \/ \E w \in EntryWeights, h \in EntryHeights, mode \in UnitModes :
           calculate_action(w, h, mode)
    \/ \E w \in EntryWeights, h \in EntryHeights, mode \in UnitModes,
          text \in NotesTexts, ts \in Times :
           save_action(w, h, mode, text, ts)
    \/ refresh_history
    \/ \E sel \in SUBSET ReadingIds : delete_selected_reading(sel)

SpecReadings == Init /\ [][NextReadings]_vars

----------------------------------------------------------------------------
(* The store called directly, as a client of class DB may call it, beside *)
(* the application.                                                        *)

\* DB.save_reading(user_id, 70, 175, 'metric', 22.86, 'Normal') at time ts;
\* sqlite3.IntegrityError propagates to the caller and changes nothing
save_reading(user_id, ts) ==
    /\ pc = "idle"
    /\ sqlite_sequence.readings < MaxReadings
    /\ LET rs == save_reading_table(user_id, ts, 70, 175, "metric", 2286,
                                     "Normal", None)
       IN  IF ~ReadingInsertOk(user_id)
           THEN UNCHANGED vars
           ELSE /\ readings' = rs
                /\ sqlite_sequence' =
                       [sqlite_sequence EXCEPT !.readings = @ + 1]
                /\ committed' = Snapshot(users, rs, sqlite_sequence')
                /\ UNCHANGED <<users, selected_user_id, users_map,
                               last_calculation, history_tree, pc,
                               stats_label, aside>>

UserIdArgs == { None } \cup { Some(i) : i \in 1..MaxUsers }

NextStore ==
    \/ Next
    \/ \E user_id \in UserIdArgs, ts \in Times : save_reading(user_id, ts)

SpecStore == Init /\ [][NextStore]_vars

----------------------------------------------------------------------------
(* delete_user statement by statement, with the faults of the storage     *)
(* layer: a statement may raise, the process may end.                      *)

\* c.execute('DELETE FROM readings WHERE user_id=?'): opens the transaction
delete_user_readings ==
    /\ pc = "idle"
    /\ delete_user_result = "deleted"
    /\ readings' = DeleteReadingsWhereUser(selected_user_id[1])
    /\ pc' = "readings_deleted"
    /\ UNCHANGED <<users, sqlite_sequence, committed, selected_user_id,
                   users_map, last_calculation, history_tree, stats_label,
                   aside>>

\* c.execute('DELETE FROM users WHERE id=?')
delete_user_row ==
    /\ pc = "readings_deleted"
    /\ users' = DeleteUsersWhereId(selected_user_id[1])
    /\ pc' = "user_deleted"
    /\ UNCHANGED <<readings, sqlite_sequence, committed, selected_user_id,
                   users_map, last_calculation, history_tree, stats_label,
                   aside>>

\* conn.commit() and the rest of delete_user
delete_user_commit ==
    /\ pc = "user_deleted"
    /\ committed' = Snapshot(users, readings, sqlite_sequence)
    /\ selected_user_id' = None
    /\ users_map' = UsersMapOf(users)
    /\ history_tree' = <<>>
    /\ stats_label' = <<"No user selected">>
    /\ pc' = "idle"
    /\ UNCHANGED <<users, readings, sqlite_sequence, last_calculation, aside>>

\* The second DELETE raises sqlite3.Error (I/O error, disk full): delete_user
\* has no except clause and no rollback, the exception ends the handler and
\* Tk returns to the event loop.  SQLite undoes the failed statement alone
\* and leaves the transaction open, or rolls the whole transaction back.
delete_user_raises ==
    /\ pc = "readings_deleted"
    /\ pc' = "idle"
    /\ \/ UNCHANGED <<users, readings, sqlite_sequence>>
       \/ /\ users' = committed.users
          /\ readings' = committed.readings
          /\ sqlite_sequence' = committed.sqlite_sequence
    /\ UNCHANGED <<committed, selected_user_id, users_map, last_calculation,
                   history_tree, stats_label, aside>>

\* conn.commit() raises sqlite3.Error (database is locked, I/O error): as
\* above the exception ends delete_user, before selected_user_id, the user
\* list and the history are reset; the transaction stays open or is rolled
\* back.
delete_user_commit_raises ==
    /\ pc = "user_deleted"
    /\ pc' = "idle"
    /\ \/ UNCHANGED <<users, readings, sqlite_sequence>>
       \/ /\ users' = committed.users
          /\ readings' = committed.readings
          /\ sqlite_sequence' = committed.sqlite_sequence
    /\ UNCHANGED <<committed, selected_user_id, users_map, last_calculation,
                   history_tree, stats_label, aside>>

\* The process ends (killed, power loss, window closed: close() without
\* commit) and the application is started again: the open transaction is
\* rolled back and BMIApp.__init__ runs.
crash_restart ==
    /\ users' = committed.users
    /\ readings' = committed.readings
    /\ sqlite_sequence' = committed.sqlite_sequence
    /\ selected_user_id' = None
    /\ users_map' = UsersMapOf(committed.users)
    /\ last_calculation' = None
    /\ history_tree' = <<>>
    /\ stats_label' = <<"No user selected">>
    /\ pc' = "idle"
    /\ UNCHANGED <<committed, aside>>

NextFault ==
    \/ \E display \in DOMAIN users_map : on_user_select(display)
    \/ \E name \in PlainNames : add_user_dialog(name, None)
    \/ \E newname \in PlainNames : rename_user_dialog(newname)
    \/ delete_user_readings
    \/ delete_user_row
    \/ delete_user_commit
    \/ delete_user_raises
    \/ delete_user_commit_raises
    \/ crash_restart
    \/ calculate_action(70, 175, "metric")
    \/ \E ts \in Times : save_action(70, 175, "metric", <<>>, ts)
    \/ refresh_history
    \/ \E sel \in SUBSET ReadingIds : delete_selected_reading(sel)

SpecFault == Init /\ [][NextFault]_vars

----------------------------------------------------------------------------
(* The application with the history exported: one user is added, the      *)
(* notes vary (none, a plain text, a text with the delimiter and the      *)
(* quote character), and the export runs on either code path.             *)

ExportNames == { <<"B">> }

ExportNotes == { <<>>, <<"x">>, <<",", "\"">> }

\* the wall clock at the saves: an earlier and a later instant
ExportTimes == { 1, 2 }

NextExport ==
    \/ \E display \in DOMAIN users_map : on_user_select(display)
    \/ \E name \in ExportNames : add_user_dialog(name, None)
    \/ calculate_action(70, 175, "metric")
    \/ \E text \in ExportNotes, ts \in ExportTimes :
           save_action(70, 175, "metric", text, ts)
    \/ refresh_history
    \/ \E sel \in SUBSET ReadingIds : delete_selected_reading(sel)
    \/ \E PANDAS_AVAILABLE \in BOOLEAN : export_history(PANDAS_AVAILABLE)

SpecExport == Init /\ [][NextExport]_vars

----------------------------------------------------------------------------
(* The application with readings of different BMI: one user is added and  *)
(* two weights are measured, so that mean, min, max and last differ.      *)

StatsWeights == { 70, 100 }

NextStats ==
    \/ \E display \in DOMAIN users_map : on_user_select(display)
    \/ \E name \in ExportNames : add_user_dialog(name, None)
    \/ \E w \in StatsWeights : calculate_action(w, 175, "metric")
    \/ \E w \in StatsWeights, ts \in Times :
           save_action(w, 175, "metric", <<>>, ts)
    \/ refresh_history
    \/ \E sel \in SUBSET ReadingIds : delete_selected_reading(sel)

SpecStats == Init /\ [][NextStats]_vars

----------------------------------------------------------------------------
(* The application with the entries at the edges of the advisory ranges:  *)
(* each bound of either unit system and the value next to it outside.     *)

RangeWeights == { 19, 20, 500, 501, 43, 44, 1100, 1101 }

RangeHeights == { 49, 50, 272, 273, 19, 20, 107, 108 }

NextRange ==
    \/ \E display \in DOMAIN users_map : on_user_select(display)
    \/ \E name \in PlainNames : add_user_dialog(name, None)
    \/ \E newname \in PlainNames : rename_user_dialog(newname)
    \/ delete_user
    \/ \E w \in RangeWeights, h \in RangeHeights, mode \in UnitModes :
           calculate_action(w, h, mode)

SpecRange == Init /\ [][NextRange]_vars

----------------------------------------------------------------------------
(* The user list: names that differ in case only, and names with a letter *)
(* outside ASCII, are added, renamed and deleted, and DB.list_users is    *)
(* called.                                                                 *)

SortNames == { <<"A", "l">>, <<"a", "l">>, <<"B">>, <<"É", "b">>, <<"é", "a">> }

\* DB.list_users() is called
list_users_call ==
    /\ pc = "idle"
    /\ \E ret \in list_users :
           call' = Some([fn |-> "list_users", args |-> <<>>, ret |-> ret])
    /\ UNCHANGED <<app, csv_file, passgen, weather>>

NextUsers ==
    \/ \E display \in DOMAIN users_map : on_user_select(display)
    \/ \E name \in SortNames : add_user_dialog(name, None)
    \/ \E newname \in SortNames : rename_user_dialog(newname)
    \/ delete_user
    \/ list_users_call

SpecUsers == Init /\ [][NextUsers]_vars

----------------------------------------------------------------------------
(* The BMI utilities called directly, as the module's functions: the      *)
(* arguments are drawn from sets around the cases of the code, and call   *)
(* records the function, its arguments and what the call returned (None   *)
(* when it raised).                                                        *)

\* bmi arguments: a window around each threshold of bmi_category, and 0
BmiInputs ==
    { t + d : t \in { 1850, 2500, 3000 }, d \in (0 - MaxDelta)..MaxDelta }
        \cup { 0 }

\* weights and heights: negative, zero, in range, and the pairs whose
\* quotient is the midpoint of two hundredths (6/80 and 2/400 metric,
\* 2/20 imperial)
WeightArgs == { 0 - 5, 0, 2, 6, 70, 100 }

HeightArgs == { 0 - 66, 0, 20, 66, 80, 175, 400 }

\* calculate_bmi(weight, height, unit) is called
calculate_bmi_call(weight, height, unit) ==
    /\ \E ret \in calculate_bmi(weight, height, unit) :
           call' = Some([fn |-> "calculate_bmi",
                         args |-> <<weight, height, unit>>, ret |-> ret])
    /\ UNCHANGED <<app, csv_file, passgen, weather>>

\* bmi_category(bmi) is called
bmi_category_call(bmi) ==
    /\ call' = Some([fn |-> "bmi_category", args |-> <<bmi>>,
                     ret |-> Some(bmi_category(bmi))])
    /\ UNCHANGED <<app, csv_file, passgen, weather>>

NextBmi ==
    \/ \E weight \in WeightArgs, height \in HeightArgs, unit \in UnitModes :
           calculate_bmi_call(weight, height, unit)
    \/ \E bmi \in BmiInputs : bmi_category_call(bmi)

SpecBmi == Init /\ [][NextBmi]_vars

----------------------------------------------------------------------------
(* The password generator.  The option widgets hold what the user set      *)
(* before pressing Generate; generate_passwords reads them, and every      *)
(* secrets.choice and the shuffle may come out in any way.  The four       *)
(* alphabets are cut down to a few characters each, the ambiguous ones     *)
(* among them.                                                             *)

MaxLen == 2

\* string.ascii_uppercase, string.ascii_lowercase, string.digits and the
\* symbols of _charset_from_options, shortened
ascii_uppercase == <<"A", "O">>

ascii_lowercase == <<"a">>

digits == <<"1">>

symbols == <<"!">>

\* the characters removed with exclude_ambiguous ticked
ambiguous == { "O", "0", "o", "I", "l", "1" }

\* the characters of the str s
CharsOf(s) == { s[i] : i \in 1..Len(s) }

\* ''.join(ch for ch in s if ch not in excluded)
Without(s, excluded) == SelectSeq(s, LAMBDA ch : ch \notin excluded)

\* ''.join(text.split()): the text without its whitespace
JoinSplit(text) == SelectSeq(text, LAMBDA ch : ~IsSpace(ch))

\* _charset_from_options: the dict parts as the sequence of its items in
\* insertion order, the classes left empty by the exclusions dropped
charset_from_options ==
    LET all == << [k |-> "upper", v |-> ascii_uppercase],
                  [k |-> "lower", v |-> ascii_lowercase],
                  [k |-> "digits", v |-> digits],
                  [k |-> "symbols", v |-> symbols] >>
        ticked == SelectSeq(all, LAMBDA part : part.k \in include)
        exclude_manual == JoinSplit(exclude_entry)
        cut(s) == Without(IF exclude_ambiguous THEN Without(s, ambiguous)
                          ELSE s,
                          CharsOf(exclude_manual))
        parts == [i \in 1..Len(ticked) |->
                     [k |-> ticked[i].k, v |-> cut(ticked[i].v)]]
    IN  SelectSeq(parts, LAMBDA part : part.v # <<>>)

\* ''.join(parts.values())
RECURSIVE JoinValues(_)
JoinValues(parts) ==
    IF parts = <<>> THEN <<>> ELSE parts[1].v \o JoinValues(Tail(parts))

\* How generate_passwords ends: one of its error dialogs, or the list filled
generate_passwords_result ==
    IF length_var <= 0 THEN "Invalid length"
    ELSE IF charset_from_options = <<>> THEN "No character types"
    ELSE IF count_var <= 0 \/ count_var > 1000 THEN "Invalid count"
    ELSE "generated"

\* a loop body that fills pwd_chars from charset only
PasswordsFillOnly(parts, length) ==
    { p \in [1..length -> CharsOf(JoinValues(parts))] : TRUE }

\* One pass of the loop body of generate_passwords: every pwd it can
\* build.  One character of each class first, then characters of charset
\* up to the length, the list shuffled, and its first length items joined.
Passwords(parts, length) ==
    LET n       == Len(parts)
        m       == IF length > n THEN length ELSE n
        charset == JoinValues(parts)
        first   == { p \in [1..n -> CharsOf(charset)] :
                        \A i \in 1..n : p[i] \in CharsOf(parts[i].v) }
        rest    == [1..(m - n) -> CharsOf(charset)]
        shuffle == Permutations(1..m)
    IN  { SubSeq([i \in 1..m |-> (f \o r)[s[i]]], 1, length) :
              f \in first, r \in rest, s \in shuffle }

\* generate_passwords: the Generate button
generate_passwords ==
    /\ generate_passwords_result = "generated"
    /\ results_list' \in [1..count_var ->
                              Passwords(charset_from_options, length_var)]
    /\ UNCHANGED <<app, csv_file, call, length_var, include,
                   exclude_ambiguous, exclude_entry, count_var, weather>>

\* what the user types into the exclusion entry
ExcludeEntries == { <<>>, <<"A", " ", "!">> }

\* counts: none, one, and more than the 1000 allowed
CountValues == { 0, 1, 1001 }

\* the generator with the options as the user left them
InitPassGen ==
    /\ InitBMIApp
    /\ InitWeatherApp
    /\ length_var \in 0..MaxLen
    /\ include \in SUBSET { "upper", "lower", "digits", "symbols" }
    /\ exclude_ambiguous \in BOOLEAN
    /\ exclude_entry \in ExcludeEntries
    /\ count_var \in CountValues
    /\ results_list = <<>>

NextPassGen == generate_passwords

SpecPassGen == InitPassGen /\ [][NextPassGen]_vars

----------------------------------------------------------------------------
(* The weather application.  Search and Auto-detect hand search_location   *)
(* and auto_detect to _threaded, which starts a thread for each press; the *)
(* threads run beside each other and beside the user, and a switch of      *)
(* thread may fall between any two statements.  A thread is followed from  *)
(* one access of the attributes of the WeatherApp to the next: threads[i]  *)
(* holds the function it runs, where it stands and its local geo.          *)

MaxThreads == 2

\* geocode_location(location): the places Nominatim knows, or None when it
\* finds nothing or the request fails
geocode_location(location) ==
    { None } \cup
    ( IF location = <<"A">>
      THEN { Some([lat |-> 10, lon |-> 10, display_name |-> <<"A">>]) }
      ELSE IF location = <<"B">>
      THEN { Some([lat |-> 20, lon |-> 20, display_name |-> <<"B">>]) }
      ELSE {} )

\* ip_geolocate(): the place of the machine's address, or None on failure
ip_geolocate ==
    { None, Some([lat |-> 20, lon |-> 20, display_name |-> <<"B">>]) }

\* fetch_weather(lat, lon): the forecast of Open-Meteo for the point, or
\* None when the request raises
fetch_weather(lat, lon) ==
    { None, Some([latitude |-> lat, longitude |-> lon]) }

\* what the user types into the location entry
LocationTexts == { <<"A">>, <<" ">> }

\* the user edits the location entry
type_location(text) ==
    /\ location_var' = text
    /\ UNCHANGED <<app, csv_file, call, passgen, coords, weather_json,
                   lbl_location, threads>>

\* _threaded(func): a thread is started on func
threaded(func) ==
    /\ Len(threads) < MaxThreads
    /\ threads' = Append(threads, [func |-> func, at |-> "start",
                                    geo |-> None])
    /\ UNCHANGED <<app, csv_file, call, passgen, location_var, coords,
                   weather_json, lbl_location>>

\* search_location in thread i, up to the call of _fetch_and_display
search_location(i) ==
    /\ threads[i].func = "search_location"
    /\ threads[i].at = "start"
    /\ LET loc == strip(location_var)
       IN  \E geo \in IF loc = <<>> THEN { None } ELSE geocode_location(loc) :
               IF geo = None
               THEN /\ threads' = [threads EXCEPT ![i].at = "failed"]
                    /\ UNCHANGED coords
               ELSE /\ coords' = Some(<<geo[1].lat, geo[1].lon>>)
                    /\ threads' = [threads EXCEPT ![i].at = "fetch_weather",
                                                  ![i].geo = geo]
    /\ UNCHANGED <<app, csv_file, call, passgen, location_var, weather_json,
                   lbl_location>>

\* auto_detect in thread i, up to the call of _fetch_and_display: the
\* assignment of coords, then location_var.set
auto_detect(i) ==
    /\ threads[i].func = "auto_detect"
    /\ \/ /\ threads[i].at = "start"
          /\ \E geo \in ip_geolocate :
                 IF geo = None
                 THEN /\ threads' = [threads EXCEPT ![i].at = "failed"]
                      /\ UNCHANGED coords
                 ELSE /\ coords' = Some(<<geo[1].lat, geo[1].lon>>)
                      /\ threads' = [threads EXCEPT ![i].at = "location_var",
                                                    ![i].geo = geo]
          /\ UNCHANGED location_var
       \/ /\ threads[i].at = "location_var"
          /\ location_var' = threads[i].geo[1].display_name
          /\ threads' = [threads EXCEPT ![i].at = "fetch_weather"]
          /\ UNCHANGED coords
    /\ UNCHANGED <<app, csv_file, call, passgen, weather_json, lbl_location>>

\* _fetch_and_display(lat, lon, display_name) in thread i: the assignment of
\* weather_json, then _render_weather writing the location label
fetch_and_display(i) ==
    /\ \/ /\ threads[i].at = "fetch_weather"
          /\ \E j \in fetch_weather(threads[i].geo[1].lat,
                                      threads[i].geo[1].lon) :
                 IF j = None
                 THEN /\ threads' = [threads EXCEPT ![i].at = "failed"]
                      /\ UNCHANGED weather_json
                 ELSE /\ weather_json' = j
                      /\ threads' =
                             [threads EXCEPT ![i].at = "render_weather"]
          /\ UNCHANGED lbl_location
       \/ /\ threads[i].at = "render_weather"
          /\ lbl_location' = threads[i].geo[1].display_name
          /\ threads' = [threads EXCEPT ![i].at = "updated"]
          /\ UNCHANGED weather_json
    /\ UNCHANGED <<app, csv_file, call, passgen, location_var, coords>>

NextWeather ==
    \/ \E text \in LocationTexts : type_location(text)
    \/ \E func \in { "search_location", "auto_detect" } : threaded(func)
    \/ \E i \in 1..Len(threads) : search_location(i)
    \/ \E i \in 1..Len(threads) : auto_detect(i)
    \/ \E i \in 1..Len(threads) : fetch_and_display(i)

SpecWeather == Init /\ [][NextWeather]_vars

----------------------------------------------------------------------------
(* Properties *)

\* C1 (Spec): referential integrity.  In every state, in the connection's
\* view and in the durable content, every reading's user_id is the id of
\* an existing user.
C1_ReferentialIntegrity ==
    /\ \A r \in readings : r.user_id \in UserIds(users)
    /\ \A r \in committed.readings : r.user_id \in UserIds(committed.users)

\* C1 witness: a user was deleted and readings were removed, a reading of
\* a remaining user is still stored.
C1_Witness ==
    /\ readings # {}
    /\ Cardinality(users) < sqlite_sequence.users
    /\ Cardinality(readings) < sqlite_sequence.readings
    /\ selected_user_id = None

\* a step that removes user u
Removes(u) == u.id \notin UserIds(users')

\* what C2 says of the store around a step that removes user u, but for
\* get_readings
CascadeEffect(u) ==
    /\ users' = users \ {u}
    /\ readings' = readings \ ReadingsOf(readings, u.id)
    /\ Cardinality(readings') =
           Cardinality(readings) - Cardinality(ReadingsOf(readings, u.id))
    /\ \A v \in users' : ReadingsOf(readings', v.id) = ReadingsOf(readings, v.id)

\* C2 as amended (Spec): a step that removes user u removes u alone and
\* exactly the readings u owns, the readings of every other user are
\* unchanged, and get_readings(u) afterwards returns the empty sequence.
C2_CascadeDelete ==
    [][\A u \in users : Removes(u) =>
          /\ CascadeEffect(u)
          /\ QueryReadings(readings', u.id) = { <<>> }]_vars

\* C2 as stated: ... and get_readings(u) afterwards fails with NotFound,
\* that is, there is no sequence the call can return.
C2_CascadeDeleteNotFound ==
    [][\A u \in users : Removes(u) =>
          /\ CascadeEffect(u)
          /\ QueryReadings(readings', u.id) = {}]_vars

\* C2 witness: of two users with one reading each, one was deleted with its
\* reading and the other keeps its own.
C2_Witness ==
    /\ sqlite_sequence = [users |-> 2, readings |-> 2]
    /\ Cardinality(users) = 1
    /\ Cardinality(readings) = 1
    /\ \A r \in readings : r.user_id \in UserIds(users)
    /\ selected_user_id = None
    /\ history_tree = <<>>

\* C3 (SpecFault): delete_user is atomic.  No durable state and no state in
\* which the application waits for the next event has a user gone while
\* readings of it remain, and no state between two handlers has readings
\* of an existing user removed from the connection's view without the
\* removal being committed.
C3_DeleteUserAtomic ==
    /\ \A r \in committed.readings : r.user_id \in UserIds(committed.users)
    /\ pc = "idle" =>
          /\ \A r \in readings : r.user_id \in UserIds(users)
          /\ \A u \in users :
                 ReadingsOf(committed.readings, u.id) \subseteq readings

\* C4 (Spec): no two distinct users have names equal without regard to case.
C4_NameUniqueNoCase ==
    \A u, v \in users : u.id # v.id => lower(u.name) # lower(v.name)

\* C5 (Spec): in every state, for every name typed, add_user of the trimmed
\* name returns no id and leaves table users unchanged when an existing
\* name equals it without regard to case, and otherwise inserts exactly
\* one user under the id it returns.
C5_AddUserDuplicate ==
    \A name \in NameInputs :
        LET n == strip(name)
        IN  IF \E u \in users : lower(u.name) = lower(n)
            THEN /\ add_user_lastrowid(n) = None
                 /\ add_user_table(n, None) = users
            ELSE /\ add_user_lastrowid(n) # None
                 /\ add_user_table(n, None) =
                        users \cup { [id |-> add_user_lastrowid(n)[1],
                                      name |-> n, dob |-> None] }
                 /\ add_user_lastrowid(n)[1] \notin UserIds(users)

\* C6 (Spec): in every state, renaming user u to a name that equals the
\* name of a different user without regard to case raises the uniqueness
\* error and leaves table users unchanged; renaming u to its own name
\* raises nothing and changes nothing.
C6_RenameDuplicate ==
    \A u \in users, newname \in NameInputs :
        LET n == strip(newname)
        IN  /\ (\E v \in users : v.id # u.id /\ lower(v.name) = lower(n)) =>
                   /\ UniqueConflict(users, n, u.id)
                   /\ rename_table(u.id, n) = users
            /\ n = u.name =>
                   /\ ~UniqueConflict(users, n, u.id)
                   /\ rename_table(u.id, n) = users

\* C7 (SpecReadings): every stored reading has the bmi that calculate_bmi
\* gives for its weight, height and unit, and the category of that bmi.
C7_BmiConsistent ==
    \A r \in readings :
        /\ Some(r.bmi) \in calculate_bmi(r.weight, r.height, r.unit)
        /\ r.category = bmi_category(r.bmi)

\* C8 (SpecReadings): every stored reading has a positive weight and a
\* positive height (a save with a non-positive one inserts nothing).
C8_PositiveMeasures ==
    \A r \in readings : r.weight > 0 /\ r.height > 0

\* C9 (SpecStore): every reading a step inserts is owned by a user that
\* exists when it is inserted (save_reading for an unknown user inserts
\* nothing).
C9_SaveNeedsUser ==
    [][\A r \in readings' \ readings : r.user_id \in UserIds(users)]_vars

Rank(category) ==
    CASE category = "Underweight" -> 1
      [] category = "Normal" -> 2
      [] category = "Overweight" -> 3
      [] category = "Obese" -> 4

\* C12 (SpecBmi): bmi_category returns Underweight exactly for bmi < 18.5,
\* Normal exactly for 18.5 <= bmi < 25.0, Overweight exactly for
\* 25.0 <= bmi < 30.0 and Obese exactly for bmi >= 30.0, so that 18.5, 25.0
\* and 30.0 fall in the higher band; and no smaller bmi gets a higher
\* category than the one returned.
C12_Classify ==
    (call # None /\ call[1].fn = "bmi_category") =>
        LET bmi == call[1].args[1]
            ret == call[1].ret[1]
        IN  /\ (ret = "Underweight") <=> (bmi < 1850)
            /\ (ret = "Normal") <=> (1850 <= bmi /\ bmi < 2500)
            /\ (ret = "Overweight") <=> (2500 <= bmi /\ bmi < 3000)
            /\ (ret = "Obese") <=> (bmi >= 3000)
            /\ \A b \in BmiInputs :
                   b <= bmi => Rank(bmi_category(b)) <= Rank(ret)

\* C12 witness: bmi_category(25.0) returned Overweight
C12_Witness ==
    /\ call # None
    /\ call[1].fn = "bmi_category"
    /\ call[1].args = <<2500>>
    /\ call[1].ret = Some("Overweight")

\* |x| for an integer x
Abs(x) == IF x < 0 THEN 0 - x ELSE x

\* C13 (SpecBmi): for positive weight and height calculate_bmi returns a
\* value, and that value is a multiple of 0.01 nearest to
\* weight / (height/100)^2 in metric mode and to 703 * weight / height^2 in
\* imperial mode: it is off the quotient by at most half a hundredth, in
\* both unit systems alike.
C13_ComputeRounded ==
    (call # None /\ call[1].fn = "calculate_bmi"
        /\ call[1].args[1] > 0 /\ call[1].args[2] > 0) =>
        LET weight == call[1].args[1]
            height == call[1].args[2]
            unit   == call[1].args[3]
            scaled == IF unit = "metric" THEN 1000000 * weight
                      ELSE 70300 * weight
        IN  /\ call[1].ret # None
            /\ 2 * Abs(call[1].ret[1] * height * height - scaled)
                   <= height * height

\* C13 witness: calculate_bmi(70, 175, 'metric') returned 22.86, the
\* quotient 22.857... rounded up, and not 22.85
C13_Witness ==
    /\ call # None
    /\ call[1].fn = "calculate_bmi"
    /\ call[1].args = <<70, 175, "metric">>
    /\ call[1].ret = Some(2286)

\* C14 (SpecBmi): a call of calculate_bmi with weight <= 0 or height <= 0,
\* in either unit system, raises and returns no BMI value.
C14_StrictPositivity ==
    (call # None /\ call[1].fn = "calculate_bmi"
        /\ (call[1].args[1] <= 0 \/ call[1].args[2] <= 0)) =>
        call[1].ret = None

\* C15 (SpecExport): while the selected user has no reading, stats_label
\* reads 'No readings' and shows no number, and no step writes a file:
\* export_history on an empty reading list leaves the file system as it was.
C15_NoData ==
    [][ /\ (selected_user_id # None
            /\ ReadingsOf(readings, selected_user_id[1]) = {})
           => (stats_label = <<"No readings">> /\ csv_file' = csv_file)
        /\ (selected_user_id' # None
            /\ ReadingsOf(readings', selected_user_id'[1]) = {})
           => stats_label' = <<"No readings">> ]_vars

\* C15 witness: the selected user had a reading stored and has none now,
\* the label reads 'No readings' and no file was ever written
C15_Witness ==
    /\ selected_user_id # None
    /\ ReadingsOf(readings, selected_user_id[1]) = {}
    /\ sqlite_sequence.readings > 0
    /\ stats_label = <<"No readings">>
    /\ csv_file = None

\* csv.reader on one line: the fields, with the quoting undone
RECURSIVE reader(_, _, _, _)
reader(chars, cells, cur, state) ==
    IF chars = <<>> THEN Append(cells, cur)
    ELSE LET c    == chars[1]
             rest == Tail(chars)
         IN  CASE state = "start" /\ c = "\"" ->
                      reader(rest, cells, <<>>, "quoted")
               [] state \in { "start", "unquoted", "closed" } /\ c = "," ->
                      reader(rest, Append(cells, cur), <<>>, "start")
               [] state = "quoted" /\ c = "\"" ->
                      reader(rest, cells, cur, "closed")
               [] state = "quoted" /\ c # "\"" ->
                      reader(rest, cells, Append(cur, c), "quoted")
               [] state = "closed" /\ c = "\"" ->
                      reader(rest, cells, Append(cur, c), "quoted")
               [] OTHER ->
                      reader(rest, cells, Append(cur, c), "unquoted")

ParseLine(line) == reader(line, <<>>, <<>>, "start")

DigitValue(c) == CHOOSE d \in 0..9 : DigitChar(d) = c

RECURSIVE ParseInt(_)
ParseInt(chars) ==
    IF chars = <<>> THEN 0
    ELSE 10 * ParseInt(SubSeq(chars, 1, Len(chars) - 1))
         + DigitValue(chars[Len(chars)])

\* float(text) in hundredths, for a text with one or two decimals
ParseFloat(text) ==
    LET neg  == text # <<>> /\ text[1] = "-"
        body == IF neg THEN Tail(text) ELSE text
        dot  == CHOOSE i \in 1..Len(body) : body[i] = "."
        ip   == ParseInt(SubSeq(body, 1, dot - 1))
        fr   == SubSeq(body, dot + 1, Len(body))
        a    == 100 * ip + (IF Len(fr) = 1 THEN 10 * ParseInt(fr)
                            ELSE ParseInt(fr))
    IN  IF neg THEN 0 - a ELSE a

\* C17 (SpecExport): whenever export_history writes a file for the
\* selected user, reading the data lines back with a CSV reader gives, line
\* by line and in the order of get_readings, the stored weight, height,
\* unit, bmi, category and notes of each reading; a reading without note
\* comes back with an empty last cell, never with the text None or null.
C17_ExportRoundTrip ==
    [][ csv_file' # csv_file =>
          \E rows \in get_readings(selected_user_id[1]) :
              LET lines == csv_file'[1].lines
              IN  /\ Len(lines) = Len(rows) + 1
                  /\ \A i \in 1..Len(rows) :
                         \E cells \in { ParseLine(lines[i + 1]) } :
                             /\ Len(cells) = 8
                             /\ ParseFloat(cells[3]) = 100 * rows[i].weight
                             /\ ParseFloat(cells[4]) = 100 * rows[i].height
                             /\ cells[5] = Text(rows[i].unit)
                             /\ ParseFloat(cells[6]) = rows[i].bmi
                             /\ cells[7] = Text(rows[i].category)
                             /\ cells[8] = (IF rows[i].notes = None THEN <<>>
                                            ELSE rows[i].notes[1])
                             /\ rows[i].notes = None =>
                                    cells[8] \notin { <<"N", "o", "n", "e">>,
                                                      <<"n", "u", "l", "l">> } ]_vars

\* C17 witness: a file was written whose second line ends with an empty
\* notes cell and whose third line carries a quoted note
C17_Witness ==
    /\ csv_file # None
    /\ Len(csv_file[1].lines) = 3
    /\ ParseLine(csv_file[1].lines[2])[8] = <<>>
    /\ ParseLine(csv_file[1].lines[3])[8] = <<",", "\"">>

\* C18 (SpecExport): whenever export_history writes a file, on the pandas
\* path and on the csv path, its first line is the header id, timestamp,
\* weight, height, unit, bmi, category, notes, and the lines after it are
\* the readings get_readings returned, one line each, in that order.
C18_ExportLayout ==
    [][ csv_file' # csv_file =>
          /\ ParseLine(csv_file'[1].lines[1]) =
                 << Text("id"), Text("timestamp"), Text("weight"),
                    Text("height"), Text("unit"), Text("bmi"),
                    Text("category"), Text("notes") >>
          /\ \E rows \in get_readings(selected_user_id[1]) :
                 /\ Len(csv_file'[1].lines) = Len(rows) + 1
                 /\ \A i \in 1..Len(rows) :
                        \E cells \in { ParseLine(csv_file'[1].lines[i + 1]) } :
                            /\ ParseInt(cells[1]) = rows[i].id
                            /\ cells[2] = isoformat(rows[i].timestamp) ]_vars

\* C18 witness: the pandas path wrote the header and two readings, the
\* later-stored reading first because its timestamp is the earlier one
C18_Witness ==
    /\ csv_file # None
    /\ csv_file[1].lineterminator = "\n"
    /\ Len(csv_file[1].lines) = 3
    /\ ParseInt(ParseLine(csv_file[1].lines[2])[1]) = 2
    /\ ParseInt(ParseLine(csv_file[1].lines[3])[1]) = 1
    /\ ParseLine(csv_file[1].lines[2])[2] # ParseLine(csv_file[1].lines[3])[2]

RECURSIVE SumBmi(_)
SumBmi(S) ==
    IF S = {} THEN 0
    ELSE LET r == CHOOSE x \in S : TRUE IN r.bmi + SumBmi(S \ { r })

\* the reading of S that comes last by (timestamp, id)
FinalReading(S) ==
    CHOOSE r \in S :
        \A q \in S : \/ q.timestamp < r.timestamp
                      \/ (q.timestamp = r.timestamp /\ q.id <= r.id)

C11_ReadingsImmutable ==
    [][ \A r \in readings : \A q \in readings' : q.id = r.id => q = r ]_vars

\* C11 witness: reading 1 is still stored after a second user was added and
\* a second reading was saved and deleted
C11_Witness ==
    /\ \E r \in readings : r.id = 1
    /\ Cardinality(readings) = 1
    /\ sqlite_sequence.readings = 2
    /\ sqlite_sequence.users = 2
    /\ Cardinality(users) = 2

\* the ways a handler reports a failure: a warning or an error dialog
Failures == { "showwarning", "showerror" }

\* C19 (SpecFault): delete_selected_reading on the row of a stored reading
\* removes that reading and nothing else, users and the other readings
\* stay; on a row whose reading is not stored it reports a failure and
\* changes nothing, neither in the connection's view nor durably.
C19_DeleteReading ==
    [][ \A id \in ReadingIds :
          delete_selected_reading({ id }) =>
              IF \E r \in readings : r.id = id
              THEN /\ readings' = { r \in readings : r.id # id }
                   /\ users' = users
              ELSE /\ delete_selected_reading_result({ id }) \in Failures
                   /\ UNCHANGED <<users, readings, committed>> ]_vars

\* the selected id is the id of no user
UnknownUserSelected ==
    selected_user_id # None /\ get_user(selected_user_id[1]) = None

\* C20 (SpecFault): with the id of no stored user selected, Rename and
\* Delete User report a failure, and the steps of delete_user leave the
\* tables users and readings as they are.
C20_UnknownUserNotFound ==
    [][ UnknownUserSelected =>
          /\ pc = "idle" =>
                 /\ rename_user_dialog_result \in Failures
                 /\ delete_user_result \in Failures
          /\ (delete_user_readings \/ delete_user_row \/ delete_user_commit)
                 => UNCHANGED <<users, readings>> ]_vars

\* C21 (Spec): in every state, in the connection's view and in the durable
\* content, every user's name is a non-empty string.
C21_NamesNonEmpty ==
    /\ \A u \in users : u.name # <<>>
    /\ \A u \in committed.users : u.name # <<>>

\* lower case of a letter, within ASCII and outside it
FoldChar(ch) ==
    CASE ch = "A" -> "a"
      [] ch = "B" -> "b"
      [] ch = "É" -> "é"
      [] OTHER -> ch

\* the key a case-insensitive comparison compares names by
FoldKey(s) == [i \in 1..Len(s) |-> Ord(FoldChar(s[i]))]

\* C22 (SpecUsers): every call of list_users, after any additions, renames
\* and deletions, returns each stored user exactly once as its (id, name,
\* dob) row, in ascending order of the names compared without regard to
\* case.
C22_ListUsersSorted ==
    [][ call' # call =>
          \E ret \in { call'[1].ret } :
              /\ IsListingOf(ret, users)
              /\ \A i, j \in 1..Len(ret) :
                     i < j => SeqLeq(FoldKey(ret[i].name),
                                     FoldKey(ret[j].name)) ]_vars

\* the advisory bounds: metric weight [20, 500] and height [50, 272],
\* imperial weight [44, 1100] and height [20, 107]
WithinAdvisoryBounds(w, h, mode) ==
    \/ mode = "metric" /\ w >= 20 /\ w <= 500 /\ h >= 50 /\ h <= 272
    \/ mode = "imperial" /\ w >= 44 /\ w <= 1100 /\ h >= 20 /\ h <= 107

\* C23 (SpecRange): for every weight, height and unit mode in the entries,
\* a Calculate that reaches calculate_bmi and shows a result has the values
\* within the advisory bounds of the unit system, and a Calculate with a
\* value outside them ends in the error dialog of the validation.
C23_RangeChecked ==
    [][ \A w \in RangeWeights, h \in RangeHeights, mode \in UnitModes :
          /\ calculate_action(w, h, mode) => WithinAdvisoryBounds(w, h, mode)
          /\ ~WithinAdvisoryBounds(w, h, mode) =>
                 /\ calculate_action_result(w, h, mode) = "showerror"
                 /\ ~validate_inputs(w, h, mode) ]_vars

\* C23 witness: 500 kg at 50 cm, both on a bound, were calculated: 2000.0
C23_Witness ==
    last_calculation = Some(<<200000, "Obese">>)

\* C24 (Spec): a step that inserts a reading is taken with a calculation
\* shown earlier in the session; while none has been shown no step changes
\* the readings table, and the first one shown comes from a Calculate that
\* passed validation and computed a BMI.
C24_CalculateBeforeSave ==
    [][ /\ readings' \ readings # {} => last_calculation # None
        /\ last_calculation = None =>
               /\ readings' = readings
               /\ committed'.readings = committed.readings
        /\ last_calculation = None /\ last_calculation' # None =>
               \E w \in EntryWeights, h \in EntryHeights, mode \in UnitModes :
                   calculate_action(w, h, mode) ]_vars

\* C24 witness: two readings were saved after 70 kg at 175 cm was calculated
C24_Witness ==
    /\ last_calculation = Some(<<2286, "Normal">>)
    /\ Cardinality(readings) = 2
    /\ \A r \in readings : r.bmi = 2286

\* the characters a class offers: its alphabet without the ambiguous
\* characters when those are excluded and without the characters listed in
\* the exclusion entry
Offered(class) ==
    LET alphabet == CASE class = "upper" -> CharsOf(ascii_uppercase)
                      [] class = "lower" -> CharsOf(ascii_lowercase)
                      [] class = "digits" -> CharsOf(digits)
                      [] class = "symbols" -> CharsOf(symbols)
    IN  { ch \in alphabet :
            /\ exclude_ambiguous => ch \notin ambiguous
            /\ \A i \in 1..Len(exclude_entry) : ch # exclude_entry[i] }

\* the selected classes that offer a character
NonEmptyClasses == { class \in include : Offered(class) # {} }

\* C25 (SpecPassGen): every generated password has exactly length_var
\* characters, each offered by a selected class, and with length_var at
\* least the number of selected classes that offer a character it has a
\* character of each of them.
C25_PasswordShape ==
    \A i \in 1..Len(results_list) :
        LET pwd == results_list[i]
        IN  /\ Len(pwd) = length_var
            /\ \A j \in 1..Len(pwd) :
                   \E class \in include : pwd[j] \in Offered(class)
            /\ length_var >= Cardinality(NonEmptyClasses) =>
                   \A class \in NonEmptyClasses :
                       \E j \in 1..Len(pwd) : pwd[j] \in Offered(class)

\* C25 witness: upper and lower selected with O excluded as ambiguous, and
\* a password of two characters generated, the lower-case one first
C25_Witness ==
    /\ include = { "upper", "lower" }
    /\ exclude_ambiguous
    /\ length_var = 2
    /\ results_list = << <<"a", "A">> >>

\* the lookup of thread i left coords, weather_json and the label
LeftBy(i) ==
    LET geo == threads[i].geo[1]
    IN  /\ coords = Some(<<geo.lat, geo.lon>>)
        /\ weather_json = Some([latitude |-> geo.lat, longitude |-> geo.lon])
        /\ lbl_location = geo.display_name

\* C26 (SpecWeather): once two lookups have run and both have updated the
\* display, the stored coords, the cached weather_json and the location
\* label are those of one of the two lookups.
C26_OneLookup ==
    ( /\ Len(threads) = 2
      /\ \A i \in 1..Len(threads) : threads[i].at = "updated" )
        => \E i \in 1..Len(threads) : LeftBy(i)
====
